---- MODULE Spec2Model ----
(***************************************************************************)
(* A model of OpenEnsembles: the validation metrics of validation.py and   *)
(* the data / cluster / validation containers of openensembles.py.         *)
(*                                                                         *)
(* Numbers.  The program computes in floating point; the model computes    *)
(* the same formulas exactly.  A real number is a rational <<n, d>> with   *)
(* d > 0 in lowest terms.  A score (the attribute `validation` of a        *)
(* val.validation object) is a record [kind, val]:                         *)
(*    kind = "nan"      not a number (val is 0)                            *)
(*    kind = "inf"      floating point infinity (val is 0)                 *)
(*    kind = "num"      the rational val                                   *)
(*    kind = "log"      the natural logarithm of the rational val          *)
(*    kind = "sqrt"     the square root of the rational val                *)
(*    kind = "negsqrt"  minus the square root of the rational val          *)
(* Which Python type holds a number decides what a division by zero does:  *)
(* int and float raise ZeroDivisionError, numpy.float64 yields nan or inf. *)
(* Each metric below notes the types the code's operands have.             *)
(***************************************************************************)
EXTENDS Integers, Sequences, FiniteSets, TLC

----------------------------------------------------------------------------
(* Bounds of the checked instances *)
MaxObj == 3        \* most objects (rows) in a data matrix of MetricSpec
MaxAttr == 2       \* most attributes (columns) in a data matrix
MaxCells == 4      \* most entries (rows times columns) in a data matrix
MaxVal == 1        \* matrix entries are drawn from 0..MaxVal
ProgObj == 2       \* objects in the data of the program (Spec)
MaxRand == 1       \* randint draws from 0..MaxRand
MaxK == 1          \* K is None or in 0..MaxK
MaxSolutions == 2  \* most clustering solutions stored in a cluster object
MaxResults == 2    \* most results stored in a validation object

----------------------------------------------------------------------------
(* Exact rational arithmetic *)
Abs(x) == IF x < 0 THEN -x ELSE x

RECURSIVE GCD(_, _)
GCD(a, b) == IF b = 0 THEN a ELSE GCD(b, a % b)

R(n, d) == LET s == IF d < 0 THEN -1 ELSE 1
               g == GCD(Abs(n), Abs(d))
           IN  <<(s * n) \div g, (s * d) \div g>>

Zero == <<0, 1>>
RInt(n) == <<n, 1>>
RAdd(a, b) == R(a[1] * b[2] + b[1] * a[2], a[2] * b[2])
RSub(a, b) == R(a[1] * b[2] - b[1] * a[2], a[2] * b[2])
RMul(a, b) == R(a[1] * b[1], a[2] * b[2])
RDiv(a, b) == R(a[1] * b[2], a[2] * b[1])
RLt(a, b) == a[1] * b[2] < b[1] * a[2]
RLe(a, b) == a[1] * b[2] <= b[1] * a[2]
RAbs(a) == <<Abs(a[1]), a[2]>>

RECURSIVE RPow(_, _)
RPow(a, n) == IF n = 0 THEN RInt(1) ELSE RMul(a, RPow(a, n - 1))

\* a function over 1..n as an evaluated array (TLC would otherwise
\* re-evaluate the body of [k \in 1..n |-> e] at every application)
Array(f) == f \o <<>>

\* sum of a sequence of ints, of rationals
RECURSIVE ISumFrom(_, _)
ISumFrom(s, k) == IF k > Len(s) THEN 0 ELSE s[k] + ISumFrom(s, k + 1)
ISum(s) == ISumFrom(Array(s), 1)

RECURSIVE RSumFrom(_, _)
RSumFrom(s, k) == IF k > Len(s) THEN Zero ELSE RAdd(s[k], RSumFrom(s, k + 1))
RSum(s) == RSumFrom(Array(s), 1)

IsSquare(n) == \E k \in 0..n : k * k = n
ISqrt(n) == CHOOSE k \in 0..n : k * k = n
HasRoot(a) == a[1] >= 0 /\ IsSquare(a[1]) /\ IsSquare(a[2])
RSqrt(a) == <<ISqrt(a[1]), ISqrt(a[2])>>

----------------------------------------------------------------------------
(* Scores *)
NaN == [kind |-> "nan", val |-> Zero]
Inf == [kind |-> "inf", val |-> Zero]
Num(a) == [kind |-> "num", val |-> a]
Log(a) == [kind |-> "log", val |-> a]
Sqrt(a) == [kind |-> "sqrt", val |-> a]
NegSqrt(a) == [kind |-> "negsqrt", val |-> a]

\* numpy.float64 division a / b
NpDiv(a, b) == IF b # Zero THEN Num(RDiv(a, b))
               ELSE IF a = Zero THEN NaN ELSE Inf

----------------------------------------------------------------------------
(* numpy and scipy helpers *)
Range(s) == {s[k] : k \in DOMAIN s}

RECURSIVE SeqMax(_)
SeqMax(s) == IF Len(s) = 1 THEN s[1]
             ELSE LET m == SeqMax(Tail(s)) IN IF s[1] > m THEN s[1] ELSE m

\* [t for t, x in enumerate(classLabel) if x == i]
RECURSIVE IndicesFrom(_, _, _)
IndicesFrom(L, i, t) ==
    IF t > Len(L) THEN <<>>
    ELSE (IF L[t] = i THEN <<t>> ELSE <<>>) \o IndicesFrom(L, i, t + 1)
Indices(L, i) == IndicesFrom(L, i, 1)

\* dataMatrix[indices, :]   (fancy indexing: a copy)
Rows(D, idx) == Array([k \in 1..Len(idx) |-> D[idx[k]]])
\* dataMatrix[:, j]
Column(D, j) == Array([k \in 1..Len(D) |-> D[k][j]])
\* np.mean of a non-empty vector
Mean(s) == RDiv(RSum(s), RInt(Len(s)))
\* np.mean(rows, 0): the vector of column means
Mean0(rows) == Array([j \in 1..Len(rows[1]) |-> Mean(Column(rows, j))])
\* math.pow(distance.euclidean(a, b), 2)
SqEuclid(a, b) == RSum(Array([j \in 1..Len(a) |-> RPow(RSub(a[j], b[j]), 2)]))
\* distance.euclidean(a, b), where it is rational
Euclid(a, b) == RSqrt(SqEuclid(a, b))

\* the order in which scipy's pdist lists the pairs (a, b), a < b
RECURSIVE PairsFrom(_, _)
PairsFrom(a, n) ==
    IF a >= n THEN <<>>
    ELSE [k \in 1..(n - a) |-> <<a, a + k>>] \o PairsFrom(a + 1, n)
PairList(n) == PairsFrom(1, n)

\* numCluster = max(classLabel) + 1
NumCluster(L) == SeqMax(L) + 1

----------------------------------------------------------------------------
(* val.validation: the object, and what a method call leaves behind *)

\* validation.__init__(data, labels)
NewValidation(data, labels) ==
    [dataMatrix |-> data, classLabel |-> labels,
     validation |-> NaN, description |-> ""]

\* a method call that returns: the object after it, no exception
Return(v, desc, score, warned) ==
    [obj |-> [v EXCEPT !.description = desc, !.validation = score],
     exc |-> "none", warned |-> warned]
\* a method call that raises after setting the description
Raise(v, desc, exc) ==
    [obj |-> [v EXCEPT !.description = desc], exc |-> exc, warned |-> FALSE]

\* sum of the squared distances of a cluster's members to its centre
SumDis(members) ==
    LET clusterCenter == Mean0(members)
    IN  RSum(Array([k \in 1..Len(members) |-> SqEuclid(members[k], clusterCenter)]))

\* sumDis/len(indices) of cluster i
Dispersion(D, L, i) ==
    LET indices == Indices(L, i)
    IN  RDiv(SumDis(Rows(D, indices)), RInt(Len(indices)))

\* sumTotal = in place of sumTotal +=: the dispersion of the last cluster
Ball_Hall_LastCluster(v) ==
    LET D == v.dataMatrix
        L == v.classLabel
        numCluster == Cardinality(Range(L))
        sumTotal == Dispersion(D, L, numCluster - 1)
    IN  Return(v, "Mean of the mean dispersions across all clusters",
               Num(RDiv(sumTotal, RInt(numCluster))), FALSE)

Ball_Hall(v) ==
    LET D == v.dataMatrix
        L == v.classLabel
        numCluster == Cardinality(Range(L))
        sumTotal == RSum([c \in 1..numCluster |-> Dispersion(D, L, c - 1)])
    IN  Return(v, "Mean of the mean dispersions across all clusters",
               Num(RDiv(sumTotal, RInt(numCluster))), FALSE)

\* The loop of Banfeld_Raferty from cluster i on.  acc is the running state:
\* prod with sumTotal = log(prod), the attribute validation, and whether a
\* warning was issued.  self.validation is assigned in the else branch only.
RECURSIVE BR_Loop(_, _, _, _)
BR_Loop(D, L, i, acc) ==
    IF i >= NumCluster(L) THEN acc
    ELSE LET n == Len(Indices(L, i))
             disp == Dispersion(D, L, i)
         IN  IF RLe(disp, Zero)
             THEN BR_Loop(D, L, i + 1, [acc EXCEPT !.warned = TRUE])
             ELSE LET p == RMul(acc.prod, RPow(disp, n))
                  IN  BR_Loop(D, L, i + 1,
                              [acc EXCEPT !.prod = p, !.validation = Log(p)])

Banfeld_Raferty(v) ==
    LET acc == BR_Loop(v.dataMatrix, v.classLabel, 0,
                       [prod |-> RInt(1), validation |-> v.validation,
                        warned |-> FALSE])
    IN  Return(v, "Weighted sum of the logarithms of the traces of the variance-covariance matrix of each cluster",
               acc.validation, acc.warned)

\* pdist(dataMatrix), squared
PairSq(D) == LET P == PairList(Len(D))
             IN  Array([p \in 1..Len(P) |-> SqEuclid(D[P[p][1]], D[P[p][2]])])
\* vecB = pdist(temp), temp[:,0] = classLabel, temp[:,1] = 0, squared
VecBSq(L) == LET P == PairList(Len(L))
             IN  Array([p \in 1..Len(P) |->
                     RInt((L[P[p][1]] - L[P[p][2]]) * (L[P[p][1]] - L[P[p][2]]))])

\* the index pairs i < j of the double loop (0-based in the code, 1-based here)
LoopPairs(numPair) == {ij \in (1..numPair) \X (1..numPair) : ij[1] < ij[2]}

\* s+ as the loop of Baker_Hubert_Gamma counts it
SPlus(pairDis, vecB) ==
    Cardinality({ij \in LoopPairs(Len(pairDis)) :
        \/ /\ RLt(Zero, vecB[ij[1]]) /\ vecB[ij[2]] = Zero
           /\ RLt(pairDis[ij[1]], pairDis[ij[2]])
        \/ /\ vecB[ij[1]] = Zero /\ RLt(Zero, vecB[ij[2]])
           /\ RLt(pairDis[ij[2]], pairDis[ij[1]])})

\* s- as the loops of Baker_Hubert_Gamma and g_plus_index count it: the
\* distance is compared with the label distance vecB of the other pair
SMinus(pairDis, vecB) ==
    Cardinality({ij \in LoopPairs(Len(pairDis)) :
        \/ /\ RLt(Zero, vecB[ij[1]]) /\ vecB[ij[2]] = Zero
           /\ RLt(vecB[ij[2]], pairDis[ij[1]])
        \/ /\ vecB[ij[1]] = Zero /\ RLt(Zero, vecB[ij[2]])
           /\ RLt(vecB[ij[1]], pairDis[ij[2]])})

\* splus and sminus are ints: (splus-sminus)/(splus+sminus) raises on 0
Baker_Hubert_Gamma(v) ==
    LET desc == "Gamma Index: a measure of compactness"
        pairDis == PairSq(v.dataMatrix)
        vecB == VecBSq(v.classLabel)
        splus == SPlus(pairDis, vecB)
        sminus == SMinus(pairDis, vecB)
    IN  IF splus + sminus = 0 THEN Raise(v, desc, "ZeroDivisionError")
        ELSE Return(v, desc, Num(R(splus - sminus, splus + sminus)), FALSE)

\* numPair is an int: 2*sminus/(numPair*(numPair-1)) raises on 0
g_plus_index(v) ==
    LET desc == "The G_plus index, a measure of connectedness"
        pairDis == PairSq(v.dataMatrix)
        vecB == VecBSq(v.classLabel)
        numPair == Len(pairDis)
        sminus == SMinus(pairDis, vecB)
    IN  IF numPair * (numPair - 1) = 0 THEN Raise(v, desc, "ZeroDivisionError")
        ELSE Return(v, desc, Num(R(2 * sminus, numPair * (numPair - 1))), FALSE)

----------------------------------------------------------------------------
(* Scatter matrices *)

\* np.dot(np.transpose(X), X) for a matrix X with m columns
Gram(X, m) ==
    Array([a \in 1..m |-> Array([b \in 1..m |->
        RSum(Array([k \in 1..Len(X) |-> RMul(X[k][a], X[k][b])]))])])

MatAdd(A, B) ==
    Array([a \in 1..Len(A) |-> Array([b \in 1..Len(A) |-> RAdd(A[a][b], B[a][b])])])
ZeroMat(m) == Array([a \in 1..m |-> Array([b \in 1..m |-> Zero])])

\* the sequence s without its k-th element
Drop(s, k) == Array([t \in 1..(Len(s) - 1) |-> IF t < k THEN s[t] ELSE s[t + 1]])

\* np.linalg.det, by expansion along the first row
RECURSIVE Det(_)
Det(A) ==
    IF Len(A) = 1 THEN A[1][1]
    ELSE LET minor(c) == Array([r \in 1..(Len(A) - 1) |-> Drop(A[r + 1], c)])
             term(c) == RMul(RInt(IF c % 2 = 1 THEN 1 ELSE -1),
                             RMul(A[1][c], Det(minor(c))))
         IN  RSum(Array([c \in 1..Len(A) |-> term(c)]))

\* the rows with every column centred on its mean:
\* for j in range(attributes): x[:,j] = x[:,j] - np.mean(x[:,j])
Centred(X) ==
    LET mu == Mean0(X)
    IN  Array([k \in 1..Len(X) |-> Array([j \in 1..Len(X[k]) |-> RSub(X[k][j], mu[j])])])

\* wg: the pooled within-cluster scatter matrix; clusterMember is a copy of
\* the rows of cluster i, so centring it leaves dataMatrix alone
RECURSIVE WG_Loop(_, _, _, _)
WG_Loop(D, L, i, wg) ==
    IF i >= NumCluster(L) THEN wg
    ELSE LET clusterMember == Rows(D, Indices(L, i))
             xCluster == IF Len(clusterMember) = 0 THEN clusterMember
                         ELSE Centred(clusterMember)
         IN  WG_Loop(D, L, i + 1, MatAdd(wg, Gram(xCluster, Len(D[1]))))

WithinScatter(D, L) == WG_Loop(D, L, 0, ZeroMat(Len(D[1])))

\* det_ratio: xData = self.dataMatrix is the same array as dataMatrix, so
\* the centring of xData for the total scatter is written into dataMatrix.
\* The determinants are numpy.float64: a zero divisor gives inf or nan.
det_ratio(v) ==
    LET attributes == Len(v.dataMatrix[1])
        wg == WithinScatter(v.dataMatrix, v.classLabel)
        xData == Centred(v.dataMatrix)
        t == Gram(xData, attributes)
    IN  Return([v EXCEPT !.dataMatrix = xData],
               "Determinant ratio, a measure of connectedness",
               NpDiv(Det(t), Det(wg)), FALSE)

ksq_detw_index(v) ==
    LET wg == WithinScatter(v.dataMatrix, v.classLabel)
        numCluster == NumCluster(v.classLabel)
    IN  Return(v, "The Ksq_DetW index, a measure of connectedness",
               Num(RMul(RInt(numCluster * numCluster), Det(wg))), FALSE)

\* log_det_ratio sets its description, then calls self.det_ratio(), which
\* sets its own description and validation; math.log raises ValueError on a
\* number <= 0, and passes nan and inf through
log_det_ratio(v) ==
    LET numObj == Len(v.classLabel)
        r == det_ratio([v EXCEPT !.description =
                 "The log determinant ratio index, a measure of connectedness"])
        x == r.obj.validation
    IN  CASE x.kind = "nan" -> [r EXCEPT !.obj.validation = NaN]
          [] x.kind = "inf" -> [r EXCEPT !.obj.validation = Inf]
          [] x.kind = "num" /\ RLe(x.val, Zero) -> [r EXCEPT !.exc = "ValueError"]
          [] OTHER -> [r EXCEPT !.obj.validation = Log(RPow(x.val, numObj))]

\* bgss: the between-group sum of squares, wgss: the within-group one
BGSS(D, L) ==
    LET dataCenter == Mean0(D)
        members(i) == Rows(D, Indices(L, i))
    IN  RSum([c \in 1..NumCluster(L) |->
            RMul(RInt(Len(members(c - 1))),
                 SqEuclid(Mean0(members(c - 1)), dataCenter))])
WGSS(D, L) ==
    RSum([c \in 1..NumCluster(L) |-> SumDis(Rows(D, Indices(L, c - 1)))])

\* bgss and wgss are Python floats: bgss/wgss raises ZeroDivisionError on
\* wgss = 0, math.log raises ValueError on 0
log_ss_ratio(v) ==
    LET desc == "The log ss ratio, a measure of connectedness"
        bgss == BGSS(v.dataMatrix, v.classLabel)
        wgss == WGSS(v.dataMatrix, v.classLabel)
    IN  IF wgss = Zero THEN Raise(v, desc, "ZeroDivisionError")
        ELSE IF bgss = Zero THEN Raise(v, desc, "ValueError")
        ELSE Return(v, desc, Log(RDiv(bgss, wgss)), FALSE)

----------------------------------------------------------------------------
(* Metrics over sums of distances.  A Euclidean distance is the root of a  *)
(* rational; these metrics are evaluated on the inputs on which every      *)
(* distance they take is itself rational (see Exact).                      *)

\* distance.pdist(X)
PairDist(X) == LET P == PairList(Len(X))
               IN  Array([p \in 1..Len(P) |-> Euclid(X[P[p][1]], X[P[p][2]])])
\* sum(itertools.chain(*distance.cdist(X, Y)))
CrossSum(X, Y) ==
    RSum([a \in 1..Len(X) |-> RSum([b \in 1..Len(Y) |-> Euclid(X[a], Y[b])])])

\* sorted(s)
RECURSIVE Insert(_, _)
Insert(x, s) == IF Len(s) = 0 THEN <<x>>
                ELSE IF RLe(x, Head(s)) THEN <<x>> \o s
                ELSE <<Head(s)>> \o Insert(x, Tail(s))
RECURSIVE Sorted(_)
Sorted(s) == IF Len(s) = 0 THEN <<>> ELSE Insert(Head(s), Sorted(Tail(s)))
Reversed(s) == Array([k \in 1..Len(s) |-> s[Len(s) + 1 - k]])

Members(D, L, i) == Rows(D, Indices(L, i))
\* sw: the sum of the within-cluster pair distances, nw: their number
SW(D, L) == RSum([c \in 1..NumCluster(L) |-> RSum(PairDist(Members(D, L, c - 1)))])
NW(L) == LET n(i) == Len(Indices(L, i))
         IN  ISum([c \in 1..NumCluster(L) |-> (n(c - 1) * (n(c - 1) - 1)) \div 2])
\* sb: the sum of the between-cluster pair distances
SB(D, L) ==
    RSum([c \in 1..NumCluster(L) |->
        RSum([e \in 1..NumCluster(L) |->
            IF e > c THEN CrossSum(Members(D, L, c - 1), Members(D, L, e - 1))
            ELSE Zero])])

\* sw, smin and smax are the int 0 when nw = 0 (sum of nothing), and then
\* the division raises; otherwise they are numpy.float64
c_index(v) ==
    LET desc == "The C-Index, a measure of cluster compactness"
        D == v.dataMatrix
        L == v.classLabel
        sw == SW(D, L)
        nw == NW(L)
        list_dataDis == PairDist(D)
        smin == RSum(SubSeq(Sorted(list_dataDis), 1, nw))
        smax == RSum(SubSeq(Reversed(Sorted(list_dataDis)), 1, nw))
    IN  IF nw = 0 THEN Raise(v, desc, "ZeroDivisionError")
        ELSE Return(v, desc, NpDiv(RSub(sw, smin), RSub(smax, smin)), FALSE)

\* nb is a Python float; sw is the int 0 when nw = 0, else numpy.float64;
\* sb is the int 0 when there is one cluster, else numpy.float64.  The
\* division raises only when no operand is a numpy.float64.
McClain_Rao(v) ==
    LET desc == "The McClain-Rao Index, a measure of compactness"
        D == v.dataMatrix
        L == v.classLabel
        numObj == Len(L)
        sw == SW(D, L)
        nw == NW(L)
        sb == SB(D, L)
        nb == (numObj * (numObj - 1)) \div 2 - nw
        num == RMul(RInt(nb), sw)
        den == RMul(RInt(nw), sb)
    IN  IF nw = 0 /\ NumCluster(L) = 1 THEN Raise(v, desc, "ZeroDivisionError")
        ELSE Return(v, desc, NpDiv(num, den), FALSE)

\* ew, et and db are numpy.float64; math.pow keeps nan and inf
PBM_index(v) ==
    LET D == v.dataMatrix
        L == v.classLabel
        numCluster == NumCluster(L)
        dataCenter == Mean0(D)
        center(i) == Mean0(Members(D, L, i))
        list_centerDis == Array([c \in 1..numCluster |-> Euclid(dataCenter, center(c - 1))])
        ew == RSum([c \in 1..numCluster |->
                 LET m == Members(D, L, c - 1)
                 IN  RSum([k \in 1..Len(m) |-> Euclid(m[k], center(c - 1))])])
        et == RSum([k \in 1..Len(D) |-> Euclid(D[k], dataCenter)])
        db == Reversed(Sorted(list_centerDis))[1]
        x == NpDiv(RMul(et, db), RMul(RInt(numCluster), ew))
    IN  Return(v, "The PBM index, a measure of compactness",
               IF x.kind = "num" THEN Num(RPow(x.val, 2)) ELSE x, FALSE)

\* sw/nw raises when nw = 0 (int/int); sb/nb raises when there is one
\* cluster (sb the int 0, nb the float 0.0)
point_biserial(v) ==
    LET desc == "The Point-Biserial index, a measure of connectedness"
        D == v.dataMatrix
        L == v.classLabel
        numObj == Len(L)
        nt == (numObj * (numObj - 1)) \div 2
        sw == SW(D, L)
        nw == NW(L)
        sb == SB(D, L)
        nb == nt - nw
        d == RSub(RDiv(sw, RInt(nw)), RDiv(sb, RInt(nb)))
        sq == RDiv(RMul(RPow(d, 2), RInt(nw * nb)), RInt(nt * nt))
    IN  IF nw = 0 \/ nb = 0 THEN Raise(v, desc, "ZeroDivisionError")
        ELSE Return(v, desc, IF RLt(d, Zero) THEN NegSqrt(sq) ELSE Sqrt(sq), FALSE)

\* np.mean of all the entries of a matrix
MeanAll(X) == RDiv(RSum([k \in 1..Len(X) |-> RSum(X[k])]),
                   RInt(Len(X) * Len(X[1])))

\* bgssj and tssj are Python floats: bgssj/tssj raises on a constant column.
\* centerCluster is the mean of all the attributes of the cluster's rows.
Ratkowsky_Lance(v) ==
    LET desc == "The Ratkowsky-Lance index, a measure of compactness"
        D == v.dataMatrix
        L == v.classLabel
        attributes == Len(D[1])
        numCluster == NumCluster(L)
        columnCenter(i) == Mean(Column(D, i))
        bgssj(i) == RSum([c \in 1..numCluster |->
                       RMul(RInt(Len(Indices(L, c - 1))),
                            RPow(RSub(MeanAll(Members(D, L, c - 1)), columnCenter(i)), 2))])
        tssj(i) == RSum([k \in 1..Len(D) |-> RPow(RSub(D[k][i], columnCenter(i)), 2)])
        r == RDiv(RSum([i \in 1..attributes |-> RDiv(bgssj(i), tssj(i))]),
                  RInt(attributes))
    IN  IF \E i \in 1..attributes : tssj(i) = Zero
        THEN Raise(v, desc, "ZeroDivisionError")
        ELSE Return(v, desc, Sqrt(RDiv(r, RInt(numCluster))), FALSE)

----------------------------------------------------------------------------
(* The registry and the dispatch by name *)

\* validation_metrics_available(): the metrics this model evaluates.
\* (silhouette, which only forwards to sklearn, is not modelled)
ValidationMetrics ==
    {"Ball_Hall", "Banfeld_Raferty", "Baker_Hubert_Gamma", "det_ratio",
     "c_index", "g_plus_index", "ksq_detw_index", "log_det_ratio",
     "log_ss_ratio", "McClain_Rao", "PBM_index", "point_biserial",
     "Ratkowsky_Lance"}

\* func = getattr(v, validation_name); func()
CallMetric(name, v) ==
    CASE name = "Ball_Hall" -> Ball_Hall(v)
      [] name = "Banfeld_Raferty" -> Banfeld_Raferty(v)
      [] name = "Baker_Hubert_Gamma" -> Baker_Hubert_Gamma(v)
      [] name = "det_ratio" -> det_ratio(v)
      [] name = "c_index" -> c_index(v)
      [] name = "g_plus_index" -> g_plus_index(v)
      [] name = "ksq_detw_index" -> ksq_detw_index(v)
      [] name = "log_det_ratio" -> log_det_ratio(v)
      [] name = "log_ss_ratio" -> log_ss_ratio(v)
      [] name = "McClain_Rao" -> McClain_Rao(v)
      [] name = "PBM_index" -> PBM_index(v)
      [] name = "point_biserial" -> point_biserial(v)
      [] name = "Ratkowsky_Lance" -> Ratkowsky_Lance(v)

\* The squared distances whose roots metric `name` takes on (D, L)
RootsTaken(name, D, L) ==
    IF name \in {"c_index", "McClain_Rao", "point_biserial"} THEN Range(PairSq(D))
    ELSE IF name = "PBM_index"
    THEN LET dataCenter == Mean0(D)
             center(i) == Mean0(Members(D, L, i))
         IN  {SqEuclid(D[k], dataCenter) : k \in 1..Len(D)}
             \cup {SqEuclid(D[k], center(L[k])) : k \in 1..Len(D)}
             \cup {SqEuclid(dataCenter, center(L[k])) : k \in 1..Len(D)}
    ELSE {}
\* every distance the metric takes is rational
Exact(name, D, L) == \A q \in RootsTaken(name, D, L) : HasRoot(q)

----------------------------------------------------------------------------
(* State *)
VARIABLES
    \* a val.validation object under test (MetricSpec)
    input,          \* the data matrix and labels it was constructed from
    v,              \* the object: dataMatrix, classLabel, validation, description
    outcome,        \* the method called on it, the exception, the warning
    \* the program (Spec)
    D,              \* data.D: source name -> data matrix
    labels, data_source, params, clusterNumbers, algorithms,   \* cluster
    validation, description, source_name, cluster_name,        \* oe.validation
    ret,            \* the last call: operation and outcome
    held,           \* the results of finishing calls the caller holds: the last two
    passed,         \* what the last operation passed to finishing.py or cooccurrence.py
    returned        \* the list of names or the cluster object the last call returned

metricVars == <<input, v, outcome>>
progVars == <<D, labels, data_source, params, clusterNumbers, algorithms,
              validation, description, source_name, cluster_name, ret>>
ensVars == <<held, passed, returned>>
vars == <<input, v, outcome, D, labels, data_source, params, clusterNumbers,
          algorithms, validation, description, source_name, cluster_name, ret,
          held, passed, returned>>

----------------------------------------------------------------------------
(* Inputs *)

\* the n x m data matrices with entries in vals
Matrices(n, m, vals) ==
    {Array([k \in 1..n |-> Array(X[k])]) : X \in [1..n -> [1..m -> {RInt(x) : x \in vals}]]}

\* the label assignments of n objects that use the labels 0..K-1 for some K,
\* the labels numbered in the order in which they first appear: every
\* partition of the objects into clusters, once
LabelAssignments(n) ==
    {Array(L) : L \in {A \in [1..n -> 0..(n - 1)] :
        /\ A[1] = 0
        /\ \A k \in 2..n : A[k] <= SeqMax(SubSeq(A, 1, k - 1)) + 1}}

\* the ensemble of the worked example: 3 assignments of 4 objects
ExampleAssignments == <<<<0, 0, 1, 1>>, <<0, 0, 1, 1>>, <<0, 1, 1, 0>>>>

\* the same sets, computed once for the sizes the model uses
MaxRows ==
    SeqMax(<<MaxObj, ProgObj, Len(ExampleAssignments[1])>>)
LabelAssignmentsOf == [n \in 1..MaxRows |-> LabelAssignments(n)]

\* the shapes (rows, columns) of the data matrices
Shapes ==
    {nm \in (1..MaxObj) \X (1..MaxAttr) : nm[1] * nm[2] <= MaxCells}

MetricInputs ==
    UNION {[data : Matrices(nm[1], nm[2], 0..MaxVal),
            labels : LabelAssignmentsOf[nm[1]]] : nm \in Shapes}

----------------------------------------------------------------------------
(* Python dictionaries are functions; d[key] = value is Put *)
EmptyDict == <<>>
Put(d, key, value) ==
    [x \in DOMAIN d \cup {key} |-> IF x = key THEN value ELSE d[x]]

\* the outcome of the last call: the operation, the value returned ("None"
\* for a bare return), the exception raised ("none" when the call
\* returned), and whether a warning was issued
Outcome(op, value, exc, warned) ==
    [op |-> op, value |-> value, exc |-> exc, warned |-> warned]

\* the operation made no call into finishing.py or cooccurrence.py
NothingPassed == [fn |-> "none", ensemble |-> <<>>]

\* a cluster object of no solution: cluster.__init__
NewCluster ==
    [labels |-> EmptyDict, data_source |-> EmptyDict, params |-> EmptyDict,
     clusterNumbers |-> EmptyDict, algorithms |-> EmptyDict]

\* the operation returned neither a list of names nor a cluster object
NoValue == [names |-> {}, c |-> NewCluster]

\* the operation called nothing outside and returned no value: the caller
\* holds what it held
NoneReturned ==
    held' = held /\ passed' = NothingPassed /\ returned' = NoValue

----------------------------------------------------------------------------
(* data.transform *)

\* transforms_available(): the registry of transforms.py
TXFM_FCN_DICT == {"zscore"}

\* one-column matrices of n objects: distinct values, equal values
Ramp(n) == Array([k \in 1..n |-> <<RInt(k - 1)>>])
Ones(n) == Array([k \in 1..n |-> <<RInt(1)>>])

\* what a transform can produce from a matrix: a matrix of as many rows,
\* whose values differ or coincide
TransformOutputs(X) == {Ramp(Len(X)), Ones(Len(X))}

transform(src, txfm_fcn, txfm_name) ==
    /\ UNCHANGED <<labels, data_source, params, clusterNumbers, algorithms,
                   validation, description, source_name, cluster_name>>
    /\ UNCHANGED metricVars
    /\ NoneReturned
    /\ IF src \notin DOMAIN D \/ txfm_fcn \notin TXFM_FCN_DICT
       THEN /\ ret' = Outcome("transform", "None", "ValueError", FALSE)
            /\ D' = D
       ELSE \E data_out \in TransformOutputs(D[src]) :
            /\ D' = Put(D, txfm_name, data_out)
            /\ ret' = Outcome("transform", "None", "none", FALSE)

----------------------------------------------------------------------------
(* cluster.cluster *)

\* algorithms_available(): the registry of clustering_algorithms.py
ALG_FCN_DICT == {"kmeans", "DBSCAN"}

\* what an algorithm can return for a matrix: any partition of its rows
AlgorithmOutputs(X) == LabelAssignmentsOf[Len(X)]

\* "%s_%d" % (output_name, r)
Suffixed(output_name, r) == output_name \o "_" \o ToString(r)

\* UniqueNames without the loop's test: any suffixed name, free or taken
\* (C8 fails with it, so C8 rests on the test)
UniqueNames_Untested(output_name) ==
    {Suffixed(output_name, r) : r \in 0..MaxRand}

\* the while loop over randint(0,10000): any suffixed name that is free
UniqueNames(output_name) ==
    {Suffixed(output_name, r) : r \in 0..MaxRand} \ DOMAIN labels

\* K is <<>> for None and <<k>> for the int k; "if K:" holds for k # 0
Truthy(K) == K # <<>> /\ K[1] # 0

cluster(src, algorithm, output_name, K, Require_Unique, kwargs) ==
    LET keep == UNCHANGED <<labels, data_source, params, clusterNumbers, algorithms>>
    IN
    /\ UNCHANGED <<D, validation, description, source_name, cluster_name>>
    /\ UNCHANGED metricVars
    /\ NoneReturned
    /\ IF src \notin DOMAIN D
       THEN keep /\ ret' = Outcome("cluster", "None", "ValueError", FALSE)
       ELSE IF output_name \in DOMAIN labels /\ Require_Unique
       THEN keep /\ ret' = Outcome("cluster", "None", "none", TRUE)
       ELSE \E name \in (IF output_name \in DOMAIN labels
                         THEN UniqueNames(output_name) ELSE {output_name}) :
            LET renamed == name # output_name IN
            IF algorithm \notin ALG_FCN_DICT
            THEN keep /\ ret' = Outcome("cluster", "None", "ValueError", renamed)
            ELSE \E out \in AlgorithmOutputs(D[src]) :
                 LET uniqueClusters == Range(out)
                     k == IF Truthy(K) THEN K[1] ELSE Cardinality(uniqueClusters)
                     var_params == Put(kwargs, "K", k)
                     mismatch == Truthy(K) /\ Cardinality(uniqueClusters) # K[1]
                 IN  /\ Cardinality(DOMAIN labels \cup {name}) <= MaxSolutions
                     /\ labels' = Put(labels, name, out)
                     /\ data_source' = Put(data_source, name, src)
                     /\ params' = Put(params, name, var_params)
                     /\ clusterNumbers' = Put(clusterNumbers, name, uniqueClusters)
                     /\ algorithms' = Put(algorithms, name, algorithm)
                     /\ ret' = Outcome("cluster", "None", "none", renamed \/ mismatch)

----------------------------------------------------------------------------
(* validation.calculate *)

\* "%s_%s_%s" % (validation_name, source_name, cluster_name)
Handle(validation_name, src, cname) ==
    validation_name \o "_" \o src \o "_" \o cname

calculate(validation_name, cname, src) ==
    LET output_name == Handle(validation_name, src, cname)
        keep == UNCHANGED <<validation, description, source_name, cluster_name>>
    IN
    /\ UNCHANGED <<labels, data_source, params, clusterNumbers, algorithms>>
    /\ UNCHANGED metricVars
    /\ NoneReturned
    /\ IF output_name \in DOMAIN validation
       THEN keep /\ D' = D
            /\ ret' = Outcome("calculate", "None", "none", TRUE)
       ELSE IF \/ src \notin DOMAIN D
               \/ cname \notin DOMAIN labels
               \/ validation_name \notin ValidationMetrics
       THEN keep /\ D' = D
            /\ ret' = Outcome("calculate", "None", "ValueError", FALSE)
       ELSE LET r == CallMetric(validation_name,
                                NewValidation(D[src], labels[cname]))
            IN  /\ Exact(validation_name, D[src], labels[cname])
                \* the metric worked on the array stored in D[src] itself
                /\ D' = [D EXCEPT ![src] = r.obj.dataMatrix]
                /\ IF r.exc # "none"
                   THEN keep /\ ret' = Outcome("calculate", "None", r.exc, FALSE)
                   ELSE /\ Cardinality(DOMAIN validation \cup {output_name}) <= MaxResults
                        /\ validation' = Put(validation, output_name, r.obj.validation)
                        /\ description' = Put(description, output_name, r.obj.description)
                        /\ source_name' = Put(source_name, output_name, src)
                        /\ cluster_name' = Put(cluster_name, output_name, cname)
                        /\ ret' = Outcome("calculate", output_name, "none", r.warned)

----------------------------------------------------------------------------
(* Co-occurrence and consensus (cooccurrence.py, finishing.py).  An         *)
(* ensemble is a dictionary name -> label assignment; objects are 1..N; a   *)
(* partition is a set of disjoint blocks (sets of objects).                 *)

\* the groups of object indices of one label assignment, by label
Groups(L) == {{i \in DOMAIN L : L[i] = c} : c \in Range(L)}

\* the number of assignments that put i and j in one group
CoCount(ens, i, j) ==
    Cardinality({n \in DOMAIN ens : \E g \in Groups(ens[n]) : i \in g /\ j \in g})

\* the co-occurrence matrix of a non-empty ensemble over N objects: for each
\* assignment the pairs within a group are incremented, then every entry is
\* divided by the ensemble size
CoMatrix(ens, N) ==
    LET E == Cardinality(DOMAIN ens)
    IN  Array([i \in 1..N |-> Array([j \in 1..N |-> R(CoCount(ens, i, j), E)])])

\* the partition of 1..N into singletons
Singletons(N) == {{i} : i \in 1..N}

\* the blocks of P that meet S merged into one
Merge(P, S) ==
    LET hit == {B \in P : B \cap S # {}}
    IN  IF hit = {} THEN P ELSE (P \ hit) \cup {UNION hit}

\* the smallest object of a block: the index of a current cluster
MinOf(B) == CHOOSE i \in B : \A j \in B : i <= j

\* the label assignment of a partition of 1..N, labels numbered in the order
\* in which the blocks first appear
LabelsOf(P, N) ==
    CHOOSE L \in LabelAssignmentsOf[N] :
        \A i, j \in 1..N : (L[i] = L[j]) <=> (\E B \in P : i \in B /\ j \in B)

\* majority vote: the number of member pairs of two current clusters whose
\* co-occurrence reaches the threshold
Qualifying(co, threshold, A, B) ==
    Cardinality({ab \in A \X B : RLe(threshold, co[ab[1]][ab[2]])})

\* majority vote from the partition P on: merge the pair of current clusters
\* with the most qualifying pairs (ties: the lowest cluster indices first)
\* until no two clusters have a qualifying pair
RECURSIVE MajorityMerge(_, _, _)
MajorityMerge(co, threshold, P) ==
    LET pairs == {AB \in P \X P : /\ MinOf(AB[1]) < MinOf(AB[2])
                                  /\ Qualifying(co, threshold, AB[1], AB[2]) > 0}
        better(X, Y) ==
            LET qx == Qualifying(co, threshold, X[1], X[2])
                qy == Qualifying(co, threshold, Y[1], Y[2])
            IN  \/ qx > qy
                \/ qx = qy /\ MinOf(X[1]) < MinOf(Y[1])
                \/ qx = qy /\ MinOf(X[1]) = MinOf(Y[1]) /\ MinOf(X[2]) <= MinOf(Y[2])
    IN  IF pairs = {} THEN P
        ELSE LET best == CHOOSE X \in pairs : \A Y \in pairs : better(X, Y)
             IN  MajorityMerge(co, threshold,
                               (P \ {best[1], best[2]}) \cup {best[1] \cup best[2]})

\* finishing.majority_vote(co_matrix, threshold).finish(): seeded with every
\* object a cluster of its own
majority_vote(co, threshold) ==
    LabelsOf(MajorityMerge(co, threshold, Singletons(Len(co))), Len(co))

\* graph closure: i and j are joined by an edge of the binarized matrix
Edge(co, threshold, i, j) == i # j /\ RLe(threshold, co[i][j])

\* the cliques of exactly clique_size nodes
Cliques(co, threshold, clique_size) ==
    {S \in SUBSET (1..Len(co)) :
        /\ Cardinality(S) = clique_size
        /\ \A i, j \in S : i # j => Edge(co, threshold, i, j)}

\* the place of a clique in the enumeration when the objects are visited in
\* the order pi: cliques are listed lexicographically, so the clique with
\* the larger key comes first
CliqueKey(S, pi, N) ==
    ISum([i \in 1..N |-> IF i \in S THEN 2 ^ (N - pi[i]) ELSE 0])

\* the cliques in `remaining` merged into the partition P one by one, in the
\* order of enumeration
RECURSIVE GraphClose(_, _, _, _)
GraphClose(P, remaining, pi, N) ==
    IF remaining = {} THEN P
    ELSE LET next == CHOOSE S \in remaining :
                         \A T \in remaining : CliqueKey(T, pi, N) <= CliqueKey(S, pi, N)
         IN  GraphClose(Merge(P, next), remaining \ {next}, pi, N)

\* finishing.graph_closure(co_matrix, threshold, clique_size).finish(), the
\* cliques enumerated in the order pi of the objects
graph_closure(co, threshold, clique_size, pi) ==
    LabelsOf(GraphClose(Singletons(Len(co)),
                        Cliques(co, threshold, clique_size), pi, Len(co)),
             Len(co))

\* what finishing.co_occurrence_linkage can return for N objects: one
\* cluster or every object alone (the dendrogram cut is not modelled)
LinkageOutputs(N) ==
    {Array([i \in 1..N |-> 0]), Array([i \in 1..N |-> i - 1])}

----------------------------------------------------------------------------
(* The ensemble operations of cluster: the finishing techniques, search_field *)
(* and slice.  A cluster object is the record of its five dictionaries.     *)

\* the calling object, self
Self ==
    [labels |-> labels, data_source |-> data_source, params |-> params,
     clusterNumbers |-> clusterNumbers, algorithms |-> algorithms]

\* the five assignments c.labels[name] = ..., c.algorithms[name] = ...
\* (clusterNumbers is np.unique of the labels)
WithSolution(c, name, lab, src, par, alg) ==
    [labels |-> Put(c.labels, name, lab),
     data_source |-> Put(c.data_source, name, src),
     params |-> Put(c.params, name, par),
     clusterNumbers |-> Put(c.clusterNumbers, name, Range(lab)),
     algorithms |-> Put(c.algorithms, name, alg)]

\* what a call that returns a cluster object leaves behind: the object is
\* the caller's, the call is the last one made
Returned(op, c) ==
    /\ held' = IF held = <<>> THEN <<c>> ELSE <<held[Len(held)], c>>
    /\ returned' = [names |-> {}, c |-> c]
    /\ ret' = Outcome(op, "cluster object", "none", FALSE)

\* N = self.dataObj.D['parent'].shape[0]
NumObjects == Len(D["parent"])

\* what finishing.mixture_model can return for N objects and K consensus
\* clusters (the EM start is random): one cluster, or the objects dealt
\* round the K clusters
MixtureOutputs(N, K) ==
    {Array([i \in 1..N |-> 0]), Array([i \in 1..N |-> (i - 1) % K])}

\* (the test that lets an ensemble of one solution through)
EnsembleTooSmall_One(p) == Cardinality(DOMAIN p) < 1

\* len(self.params) < 2
EnsembleTooSmall(p) == Cardinality(DOMAIN p) < 2

mixture_model(K, iterations) ==
    /\ UNCHANGED <<D, labels, data_source, params, clusterNumbers, algorithms,
                   validation, description, source_name, cluster_name>>
    /\ UNCHANGED metricVars
    /\ IF EnsembleTooSmall(params)
       THEN /\ ret' = Outcome("mixture_model", "None", "ValueError", FALSE)
            /\ NoneReturned
       ELSE \E out \in MixtureOutputs(NumObjects, K) :
            /\ passed' = [fn |-> "mixture_model", ensemble |-> labels]
            /\ Returned("mixture_model",
                        WithSolution(NewCluster, "mixture_model", out, "parent",
                                     [iterations |-> iterations, K |-> K],
                                     "mixture_model"))

\* the matrix built from one of the solutions stored, not from all of them
coMatObj_OneSolution(c) ==
    LET one == CHOOSE n \in DOMAIN c.labels : TRUE
    IN  CoMatrix([n \in {one} |-> c.labels[n]], NumObjects)

\* coMatObj = self.co_occurrence_matrix('parent'): co.coMat(self, 'parent')
\* reads the label assignments of every solution of the object
coMatObj(c) == CoMatrix(c.labels, NumObjects)

\* what a finishing call that cannot build the co-occurrence matrix leaves
NoEnsemble(op) ==
    /\ ret' = Outcome(op, "None", "InputError", FALSE)
    /\ NoneReturned

finish_co_occ_linkage(threshold, linkage) ==
    /\ UNCHANGED <<D, labels, data_source, params, clusterNumbers, algorithms,
                   validation, description, source_name, cluster_name>>
    /\ UNCHANGED metricVars
    /\ IF DOMAIN labels = {} THEN NoEnsemble("finish_co_occ_linkage")
       ELSE \E out \in LinkageOutputs(NumObjects) :
            /\ passed' = [fn |-> "co_occurrence_linkage", ensemble |-> labels,
                          co_matrix |-> coMatObj(Self),
                          threshold |-> threshold, linkage |-> linkage]
            /\ Returned("finish_co_occ_linkage",
                        WithSolution(NewCluster, "co_occ_linkage", out, "parent",
                                     [linkage |-> linkage, threshold |-> threshold],
                                     "co_occ_linkage"))

\* c.co_occurrence_matrix(): the coMat object is returned to the caller
co_occurrence_matrix ==
    /\ UNCHANGED <<D, labels, data_source, params, clusterNumbers, algorithms,
                   validation, description, source_name, cluster_name>>
    /\ UNCHANGED metricVars
    /\ IF DOMAIN labels = {} THEN NoEnsemble("co_occurrence_matrix")
       ELSE /\ passed' = [fn |-> "coMat", ensemble |-> labels,
                          co_matrix |-> coMatObj(Self)]
            /\ UNCHANGED held /\ returned' = NoValue
            /\ ret' = Outcome("co_occurrence_matrix", "coMat", "none", FALSE)

\* clique_size is not handed on: finish.graph_closure runs with its default
finish_graph_closure_DefaultClique(threshold, clique_size) ==
    /\ UNCHANGED <<D, labels, data_source, params, clusterNumbers, algorithms,
                   validation, description, source_name, cluster_name>>
    /\ UNCHANGED metricVars
    /\ IF DOMAIN labels = {} THEN NoEnsemble("finish_graph_closure")
       ELSE \E pi \in Permutations(1..NumObjects) :
            LET co == coMatObj(Self)
                out == graph_closure(co, threshold, 3, pi)
            IN  /\ passed' = [fn |-> "graph_closure", ensemble |-> labels,
                              co_matrix |-> co, threshold |-> threshold,
                              clique_size |-> 3]
                /\ Returned("finish_graph_closure",
                            WithSolution(NewCluster, "graph_closure", out, "parent",
                                         [threshold |-> threshold,
                                          clique_size |-> clique_size],
                                         "graph_closure"))

finish_graph_closure(threshold, clique_size) ==
    /\ UNCHANGED <<D, labels, data_source, params, clusterNumbers, algorithms,
                   validation, description, source_name, cluster_name>>
    /\ UNCHANGED metricVars
    /\ IF DOMAIN labels = {} THEN NoEnsemble("finish_graph_closure")
       ELSE \E pi \in Permutations(1..NumObjects) :
            LET co == coMatObj(Self)
                out == graph_closure(co, threshold, clique_size, pi)
            IN  /\ passed' = [fn |-> "graph_closure", ensemble |-> labels,
                              co_matrix |-> co, threshold |-> threshold,
                              clique_size |-> clique_size]
                /\ Returned("finish_graph_closure",
                            WithSolution(NewCluster, "graph_closure", out, "parent",
                                         [threshold |-> threshold,
                                          clique_size |-> clique_size],
                                         "graph_closure"))

\* c_MV.finish() is not called: the labels are those of the seed partition
finish_majority_vote_Unfinished(threshold) ==
    /\ UNCHANGED <<D, labels, data_source, params, clusterNumbers, algorithms,
                   validation, description, source_name, cluster_name>>
    /\ UNCHANGED metricVars
    /\ IF DOMAIN labels = {} THEN NoEnsemble("finish_majority_vote")
       ELSE LET co == coMatObj(Self)
                out == LabelsOf(Singletons(Len(co)), Len(co))
            IN  /\ passed' = [fn |-> "majority_vote", ensemble |-> labels,
                              co_matrix |-> co, threshold |-> threshold]
                /\ Returned("finish_majority_vote",
                            WithSolution(NewCluster, "majority_vote", out, "parent",
                                         EmptyDict, "majority_vote"))

\* the consensus stored in the calling object, which is returned: c = self
\* in place of c = oe.cluster(self.dataObj)
finish_majority_vote_InPlace(threshold) ==
    /\ UNCHANGED <<D, validation, description, source_name, cluster_name>>
    /\ UNCHANGED metricVars
    /\ IF DOMAIN labels = {} THEN
            /\ NoEnsemble("finish_majority_vote")
            /\ UNCHANGED <<labels, data_source, params, clusterNumbers, algorithms>>
       ELSE LET co == coMatObj(Self)
                out == majority_vote(co, threshold)
                c == WithSolution(Self, "majority_vote", out, "parent",
                                  EmptyDict, "majority_vote")
            IN  /\ passed' = [fn |-> "majority_vote", ensemble |-> labels,
                              co_matrix |-> co, threshold |-> threshold]
                /\ labels' = c.labels /\ data_source' = c.data_source
                /\ params' = c.params /\ clusterNumbers' = c.clusterNumbers
                /\ algorithms' = c.algorithms
                /\ Returned("finish_majority_vote", c)

\* params = {} is stored as it was created: the threshold is not put in it
finish_majority_vote(threshold) ==
    /\ UNCHANGED <<D, labels, data_source, params, clusterNumbers, algorithms,
                   validation, description, source_name, cluster_name>>
    /\ UNCHANGED metricVars
    /\ IF DOMAIN labels = {} THEN NoEnsemble("finish_majority_vote")
       ELSE LET co == coMatObj(Self)
                out == majority_vote(co, threshold)
            IN  /\ passed' = [fn |-> "majority_vote", ensemble |-> labels,
                              co_matrix |-> co, threshold |-> threshold]
                /\ Returned("finish_majority_vote",
                            WithSolution(NewCluster, "majority_vote", out, "parent",
                                         EmptyDict, "majority_vote"))

\* A search value is <<"s", string>> or <<"i", integer>>.  stored == value
\* in Python, for a stored value of the given kind: values of different
\* kinds are unequal
PyEq(kind, stored, value) == value[1] = kind /\ value[2] = stored

\* the kind of the values stored under a parameter name
ParamKind(field) == IF field = "K" THEN "i" ELSE "s"

\* names: the solutions whose entry for the field equals the value
Found(field, value) ==
    IF field = "data_source"
    THEN {name \in DOMAIN data_source : PyEq("s", data_source[name], value)}
    ELSE IF field = "algorithm"
    THEN {name \in DOMAIN algorithms : PyEq("s", algorithms[name], value)}
    ELSE IF field = "clusterNumber"
    THEN {name \in DOMAIN clusterNumbers :
              PyEq("i", Cardinality(clusterNumbers[name]), value)}
    ELSE {name \in DOMAIN params :
              /\ field \in DOMAIN params[name]
              /\ PyEq(ParamKind(field), params[name][field], value)}

\* paramFound, for a field searched in the parameters
paramFound(field) == \E name \in DOMAIN params : field \in DOMAIN params[name]

\* the list of names is returned as the set of its members
search_field(field, value) ==
    /\ UNCHANGED <<D, labels, data_source, params, clusterNumbers, algorithms,
                   validation, description, source_name, cluster_name>>
    /\ UNCHANGED metricVars
    /\ UNCHANGED held /\ passed' = NothingPassed
    /\ IF field \notin {"data_source", "algorithm", "clusterNumber"}
          /\ ~paramFound(field)
       THEN /\ ret' = Outcome("search_field", "None", "ValueError", FALSE)
            /\ returned' = NoValue
       ELSE /\ ret' = Outcome("search_field", "names", "none", FALSE)
            /\ returned' = [names |-> Found(field, value), c |-> NewCluster]

\* the five assignments c.labels[name] = self.labels[name], ...
CopySolution(c, name) ==
    [labels |-> Put(c.labels, name, labels[name]),
     data_source |-> Put(c.data_source, name, data_source[name]),
     params |-> Put(c.params, name, params[name]),
     clusterNumbers |-> Put(c.clusterNumbers, name, clusterNumbers[name]),
     algorithms |-> Put(c.algorithms, name, algorithms[name])]

\* the loop over names from the i-th on, all of them stored
RECURSIVE SliceFrom(_, _, _)
SliceFrom(c, names, i) ==
    IF i > Len(names) THEN c
    ELSE SliceFrom(CopySolution(c, names[i]), names, i + 1)

\* a name that is not stored is passed over: no ValueError
slice_SkipMissing(names) ==
    /\ UNCHANGED <<D, labels, data_source, params, clusterNumbers, algorithms,
                   validation, description, source_name, cluster_name>>
    /\ UNCHANGED metricVars
    /\ UNCHANGED held /\ passed' = NothingPassed
    /\ ret' = Outcome("slice", "cluster object", "none", FALSE)
    /\ returned' =
          [names |-> {},
           c |-> SliceFrom(NewCluster,
                           SelectSeq(names, LAMBDA n : n \in DOMAIN labels), 1)]

\* the loop raises at the first name that is not stored; the object built
\* so far is dropped
slice(names) ==
    /\ UNCHANGED <<D, labels, data_source, params, clusterNumbers, algorithms,
                   validation, description, source_name, cluster_name>>
    /\ UNCHANGED metricVars
    /\ UNCHANGED held /\ passed' = NothingPassed
    /\ IF \E i \in DOMAIN names : names[i] \notin DOMAIN labels
       THEN /\ ret' = Outcome("slice", "None", "ValueError", FALSE)
            /\ returned' = NoValue
       ELSE /\ ret' = Outcome("slice", "cluster object", "none", FALSE)
            /\ returned' = [names |-> {}, c |-> SliceFrom(NewCluster, names, 1)]

----------------------------------------------------------------------------
(* MetricSpec: one metric method called on a freshly constructed           *)
(* val.validation object, for every input within the bounds                *)

NoCall == Outcome("init", "None", "none", FALSE)
MetricInit ==
    /\ input \in MetricInputs
    /\ v = NewValidation(input.data, input.labels)
    /\ outcome = [called |-> "none", exc |-> "none", warned |-> FALSE]
    /\ D = Put(EmptyDict, "parent", input.data)
    /\ labels = EmptyDict /\ data_source = EmptyDict /\ params = EmptyDict
    /\ clusterNumbers = EmptyDict /\ algorithms = EmptyDict
    /\ validation = EmptyDict /\ description = EmptyDict
    /\ source_name = EmptyDict /\ cluster_name = EmptyDict
    /\ ret = NoCall
    /\ held = <<>> /\ passed = NothingPassed /\ returned = NoValue

\* func = getattr(v, name); func()
CallMethod(name) ==
    /\ outcome.called = "none"
    /\ Exact(name, v.dataMatrix, v.classLabel)
    /\ LET r == CallMetric(name, v)
       IN  /\ v' = r.obj
           /\ outcome' = [called |-> name, exc |-> r.exc, warned |-> r.warned]
    /\ UNCHANGED input
    /\ UNCHANGED progVars
    /\ NoneReturned

MetricNext == \E name \in ValidationMetrics : CallMethod(name)

MetricSpec == MetricInit /\ [][MetricNext]_vars

----------------------------------------------------------------------------
(* The program: a data object, a cluster object on it and a validation     *)
(* object on both.                                                         *)

\* the data frames the program is run on
DataFrames == {Ramp(ProgObj), Ones(ProgObj)}

\* data(df, x); cluster(dataObj); validation(dataObj, cObj)
Init ==
    /\ D \in {Put(EmptyDict, "parent", X) : X \in DataFrames}
    /\ labels = EmptyDict /\ data_source = EmptyDict /\ params = EmptyDict
    /\ clusterNumbers = EmptyDict /\ algorithms = EmptyDict
    /\ validation = EmptyDict /\ description = EmptyDict
    /\ source_name = EmptyDict /\ cluster_name = EmptyDict
    /\ ret = NoCall
    /\ held = <<>> /\ passed = NothingPassed /\ returned = NoValue
    /\ input = [data |-> D["parent"], labels |-> <<>>]
    /\ v = NewValidation(D["parent"], <<>>)
    /\ outcome = [called |-> "none", exc |-> "none", warned |-> FALSE]

\* the arguments the calls are made with
KArgs == {<<>>} \cup {<<k>> : k \in 0..MaxK}
OutputNameArgs == {"k", "k_k"}

(* ClusterSpec: any sequence of cluster.cluster calls *)
ClusterSourceArgs == {"parent", "nope"}
AlgorithmArgs == {"DBSCAN", "nope"}
ClusterOutputArgs == {"k"}
KwargsArgs == {EmptyDict}

Cluster ==
    \E src \in ClusterSourceArgs, a \in AlgorithmArgs, name \in ClusterOutputArgs,
       K \in KArgs, u \in BOOLEAN, kwargs \in KwargsArgs :
        cluster(src, a, name, K, u, kwargs)

ClusterSpec == Init /\ [][Cluster]_vars

(* Spec: any sequence of transform, cluster and calculate calls *)
SourceArgs == {"parent", "parent_k", "nope"}
TxfmFcnArgs == {"zscore", "nope"}
TxfmNameArgs == {"parent_k"}
MetricArgs == {"det_ratio", "nope"}
ClusterNameArgs == OutputNameArgs \cup {"nope"}

Transform ==
    \E src \in SourceArgs, f \in TxfmFcnArgs, name \in TxfmNameArgs :
        transform(src, f, name)

\* in Spec the solutions are kmeans solutions of the parent data, K left out
ClusterParent ==
    \E name \in OutputNameArgs, K \in {<<>>}, u \in {TRUE} :
        cluster("parent", "kmeans", name, K, u, EmptyDict)

Calculate ==
    \E m \in MetricArgs, c \in ClusterNameArgs, src \in SourceArgs :
        calculate(m, c, src)

Next == Transform \/ ClusterParent \/ Calculate

Spec == Init /\ [][Next]_vars

(* EnsembleSpec: an ensemble is clustered from the parent data, finished,  *)
(* searched and sliced                                                     *)
EnsAlgorithmArgs == {"kmeans"}
MixtureKArgs == {2}
IterationsArgs == {10}

EnsCluster ==
    \E name \in OutputNameArgs, a \in EnsAlgorithmArgs, K \in {<<>>} :
        cluster("parent", a, name, K, TRUE, EmptyDict)

MixtureModel ==
    \E K \in MixtureKArgs, iterations \in IterationsArgs :
        mixture_model(K, iterations)

\* the threshold is a rational: 1/2
ThresholdArgs == {R(1, 2)}
LinkageArgs == {"average"}
CliqueSizeArgs == {2}

FinishCoOccLinkage ==
    \E threshold \in ThresholdArgs, linkage \in LinkageArgs :
        finish_co_occ_linkage(threshold, linkage)

FinishGraphClosure ==
    \E threshold \in ThresholdArgs, clique_size \in CliqueSizeArgs :
        finish_graph_closure(threshold, clique_size)

FinishMajorityVote ==
    \E threshold \in ThresholdArgs : finish_majority_vote(threshold)

EnsembleNext ==
    \/ EnsCluster
    \/ MixtureModel
    \/ FinishCoOccLinkage
    \/ FinishGraphClosure
    \/ FinishMajorityVote

EnsembleSpec == Init /\ [][EnsembleNext]_vars

SearchAlgorithmArgs == {"kmeans", "DBSCAN"}
SearchKArgs == {<<>>, <<1>>}
SearchFieldArgs ==
    {"data_source", "algorithm", "clusterNumber", "K", "linkage", "colour"}
SearchValueArgs ==
    {<<"s", "parent">>, <<"s", "kmeans">>, <<"s", "ward">>, <<"i", 1>>, <<"i", 2>>}
SliceArgs ==
    {<<>>, <<"k">>, <<"k_k">>, <<"k", "k_k">>, <<"k_k", "k", "k">>, <<"k", "zz">>}

SearchCluster ==
    \E name \in OutputNameArgs, a \in SearchAlgorithmArgs, K \in SearchKArgs :
        cluster("parent", a, name, K, TRUE, EmptyDict)

SearchField ==
    \E field \in SearchFieldArgs, value \in SearchValueArgs :
        search_field(field, value)

Slice == \E names \in SliceArgs : slice(names)

SearchNext == SearchCluster \/ SearchField \/ Slice

SearchSpec == Init /\ [][SearchNext]_vars

\* the names under which the solutions of a drawn ensemble are stored
EnsembleNames == <<"e1", "e2", "e3", "e4">>

\* the place of a label assignment among those of its length
Rank(L) == ISum([k \in 1..Len(L) |-> L[k] * (Len(L) ^ (Len(L) - k))])

\* the ensembles of E assignments of N objects, in the order of their rank:
\* no operation depends on the order in which the solutions were stored
Ensembles(N, E) ==
    {a \in [1..E -> LabelAssignmentsOf[N]] :
        \A e \in 1..(E - 1) : Rank(a[e]) <= Rank(a[e + 1])}

ConsensusEnsembles ==
    {ExampleAssignments}
    \cup UNION {Ensembles(N, E) : N \in 1..MaxObj, E \in 1..MaxSolutions}

\* the cluster object in which the assignments a were stored by cluster
StoredEnsemble(a) ==
    LET names == {EnsembleNames[e] : e \in 1..Len(a)}
        of(n) == a[CHOOSE e \in 1..Len(a) : EnsembleNames[e] = n]
    IN  [labels |-> [n \in names |-> of(n)],
         data_source |-> [n \in names |-> "parent"],
         params |-> [n \in names |-> [K |-> Cardinality(Range(of(n)))]],
         clusterNumbers |-> [n \in names |-> Range(of(n))],
         algorithms |-> [n \in names |-> "kmeans"]]

\* a cluster object that holds an ensemble, on data of as many objects
ConsensusInit ==
    \E a \in ConsensusEnsembles :
        LET c == StoredEnsemble(a) IN
        /\ D = Put(EmptyDict, "parent", Ramp(Len(a[1])))
        /\ labels = c.labels /\ data_source = c.data_source /\ params = c.params
        /\ clusterNumbers = c.clusterNumbers /\ algorithms = c.algorithms
        /\ validation = EmptyDict /\ description = EmptyDict
        /\ source_name = EmptyDict /\ cluster_name = EmptyDict
        /\ ret = NoCall
        /\ held = <<>> /\ passed = NothingPassed /\ returned = NoValue
        /\ input = [data |-> D["parent"], labels |-> <<>>]
        /\ v = NewValidation(D["parent"], <<>>)
        /\ outcome = [called |-> "none", exc |-> "none", warned |-> FALSE]

\* thresholds 1/2 and 1; cliques of 2 and of 3 nodes
ConsensusThresholdArgs == {R(1, 2), RInt(1)}
ConsensusCliqueSizeArgs == {2, 3}

\* one call on the cluster object as it was drawn
CoOccurrence == ret = NoCall /\ co_occurrence_matrix

GraphClosure ==
    /\ ret = NoCall
    /\ \E threshold \in ConsensusThresholdArgs,
          clique_size \in ConsensusCliqueSizeArgs :
          finish_graph_closure(threshold, clique_size)

MajorityVote ==
    /\ ret = NoCall
    /\ \E threshold \in ConsensusThresholdArgs : finish_majority_vote(threshold)

ConsensusNext == CoOccurrence \/ GraphClosure \/ MajorityVote

ConsensusSpec == ConsensusInit /\ [][ConsensusNext]_vars

----------------------------------------------------------------------------
(* Properties *)

clusterDicts == <<labels, data_source, params, clusterNumbers, algorithms>>

\* C1: computing a validation metric never changes its inputs: a calculate
\* call leaves every data matrix of the data object and every label
\* sequence of the cluster object as they were.
C1_InputsUnchanged ==
    [][ret'.op = "calculate" => D' = D /\ labels' = labels]_vars

\* The degenerate inputs the metrics' formulas name: s+ + s- = 0, fewer
\* than 3 objects, a zero between-group or within-group sum of squares
Degenerate(name, data, L) ==
    \/ /\ name = "Baker_Hubert_Gamma"
       /\ SPlus(PairSq(data), VecBSq(L)) + SMinus(PairSq(data), VecBSq(L)) = 0
    \/ name = "g_plus_index" /\ Len(L) < 3
    \/ /\ name = "log_ss_ratio"
       /\ (BGSS(data, L) = Zero \/ WGSS(data, L) = Zero)

\* C2: no metric raises; on a degenerate input (a division by zero, the
\* logarithm of a non-positive number) the call returns and the score is NaN.
C2_DegenerateIsNaN ==
    outcome.called # "none" =>
        /\ outcome.exc = "none"
        /\ Degenerate(outcome.called, input.data, input.labels)
              => v.validation = NaN

\* C3: det_ratio, log_det_ratio and ksq_detw_index give NaN whenever the
\* pooled within-cluster scatter matrix is singular.
C3_SingularIsNaN ==
    /\ outcome.called \in {"det_ratio", "log_det_ratio", "ksq_detw_index"}
    /\ Det(WithinScatter(input.data, input.labels)) = Zero
    => outcome.exc = "none" /\ v.validation = NaN

\* C4: Banfeld_Raferty on a fresh object warns and gives NaN whenever some
\* cluster, whichever its index, has zero mean dispersion.
C4_BanfeldDegenerateIsNaN ==
    /\ outcome.called = "Banfeld_Raferty"
    /\ \E i \in 0..(NumCluster(input.labels) - 1) :
           Dispersion(input.data, input.labels, i) = Zero
    => outcome.warned /\ v.validation = NaN

\* C5: calculate keeps one result per (metric, source, solution): a call is
\* rejected as already existing only if the stored entry under its handle
\* holds the result of the same source and solution.
C5_OneResultPerTriple ==
    [][\A m \in MetricArgs, c \in DOMAIN labels, s \in DOMAIN D :
          Handle(m, s, c) \in DOMAIN validation /\ calculate(m, c, s)
          => /\ source_name[Handle(m, s, c)] = s
             /\ cluster_name[Handle(m, s, c)] = c]_vars

\* C6: every calculate call that does not raise returns its handle, and the
\* handle is a key of the validation dictionary, also on a repeated request.
C6_ReturnsHandle ==
    [][\A m \in MetricArgs, c \in ClusterNameArgs, s \in SourceArgs :
          ret'.op = "calculate" /\ ret'.exc = "none" /\ calculate(m, c, s)
          => /\ ret'.value = Handle(m, s, c)
             /\ Handle(m, s, c) \in DOMAIN validation']_vars

\* C7: cluster with Require_Unique=True and an output_name that names a
\* stored solution adds nothing and raises ValueError.
C7_RequireUniqueRaises ==
    [][\A src \in ClusterSourceArgs, a \in AlgorithmArgs, name \in DOMAIN labels,
          K \in KArgs, kw \in KwargsArgs :
          cluster(src, a, name, K, TRUE, kw)
          => ret'.exc = "ValueError" /\ UNCHANGED clusterDicts]_vars

\* the entries of solution n in the five dictionaries
Solution(n) == <<labels[n], data_source[n], params[n], clusterNumbers[n], algorithms[n]>>

\* C8: cluster with Require_Unique=False never overwrites: every cluster
\* call leaves the stored solutions as they were and adds at most one key,
\* which is output_name if that was free and else '<output_name>_<int>' and
\* was not a key before; and no call with Require_Unique=False returns
\* without adding its key.
C8_NeverOverwrites ==
    [][ret'.op = "cluster" =>
        /\ \A n \in DOMAIN labels : n \in DOMAIN labels' /\ Solution(n)' = Solution(n)
        /\ Cardinality(DOMAIN labels' \ DOMAIN labels) <= 1
        /\ \A n \in DOMAIN labels' \ DOMAIN labels :
               \E name \in ClusterOutputArgs :
                   \/ n = name
                   \/ name \in DOMAIN labels /\ \E r \in 0..MaxRand : n = Suffixed(name, r)
        /\ ret'.exc = "none" /\ DOMAIN labels' = DOMAIN labels
             => \A src \in ClusterSourceArgs, a \in AlgorithmArgs,
                   name \in ClusterOutputArgs, K \in KArgs, kw \in KwargsArgs :
                    ~cluster(src, a, name, K, FALSE, kw)]_vars

\* a solution stored under a generated name next to the one it avoided
C8_Witness ==
    /\ ret.op = "cluster" /\ ret.exc = "none"
    /\ \E name \in ClusterOutputArgs, r \in 0..MaxRand :
           {name, Suffixed(name, r)} \subseteq DOMAIN labels

\* C9: cluster raises ValueError, and stores nothing, whenever source_name
\* is not a data source and whenever the algorithm is not available,
\* whatever output_name and Require_Unique are.
C9_InvalidArgumentRaises ==
    [][\A src \in ClusterSourceArgs, a \in AlgorithmArgs, name \in ClusterOutputArgs,
          K \in KArgs, u \in BOOLEAN, kw \in KwargsArgs :
          (src \notin DOMAIN D \/ a \notin ALG_FCN_DICT) /\ cluster(src, a, name, K, u, kw)
          => ret'.exc = "ValueError" /\ UNCHANGED clusterDicts]_vars

\* C10: after cluster stores a solution, params[name]['K'] is the K passed
\* whenever a K was passed, and otherwise the number of distinct labels.
C10_StoredK ==
    [][\A src \in ClusterSourceArgs, a \in AlgorithmArgs, name \in ClusterOutputArgs,
          K \in KArgs, u \in BOOLEAN, kw \in KwargsArgs :
          DOMAIN labels' # DOMAIN labels /\ cluster(src, a, name, K, u, kw)
          => \A n \in DOMAIN labels' \ DOMAIN labels :
                 params'[n]["K"] = IF K # <<>> THEN K[1]
                                   ELSE Cardinality(Range(labels'[n]))]_vars

\* C11: mixture_model raises ValueError whenever the cluster object holds
\* fewer than two solutions, creating no result object and leaving the
\* cluster object as it was; with two or more solutions a call that returns
\* has passed all the stored label assignments to the mixture model.
C11_MixtureNeedsEnsemble ==
    [][ret'.op = "mixture_model" =>
        IF Cardinality(DOMAIN labels) < 2
        THEN ret'.exc = "ValueError" /\ held' = held /\ Self' = Self
        ELSE /\ ret'.exc = "none"
             /\ passed' = [fn |-> "mixture_model", ensemble |-> labels]]_vars

\* mixture_model has returned a consensus of an ensemble of two solutions
C11_Witness ==
    /\ ret.op = "mixture_model" /\ ret.exc = "none"
    /\ Cardinality(DOMAIN labels) >= 2
    /\ passed = [fn |-> "mixture_model", ensemble |-> labels]
    /\ Len(held) >= 1

\* the three co-occurrence finishing methods, as ret.op names them
CoOccFinishers ==
    {"finish_co_occ_linkage", "finish_graph_closure", "finish_majority_vote"}

\* C12: finish_co_occ_linkage, finish_graph_closure and finish_majority_vote
\* called on a cluster object that holds fewer than two solutions fail with
\* an input error and return no consensus.
C12_FinishersNeedEnsemble ==
    [][ret'.op \in CoOccFinishers /\ Cardinality(DOMAIN labels) < 2
       => ret'.exc # "none" /\ held' = held]_vars

\* the cluster object c holds exactly one solution, called name, whose
\* algorithms entry is name and whose params entry is par
OneSolution(c, name, par) ==
    /\ DOMAIN c.labels = {name} /\ DOMAIN c.data_source = {name}
    /\ DOMAIN c.params = {name} /\ DOMAIN c.clusterNumbers = {name}
    /\ DOMAIN c.algorithms = {name}
    /\ c.algorithms[name] = name
    /\ c.params[name] = par

\* C13: the cluster object a finishing call returns holds exactly one
\* solution, named after the method, whose algorithms entry is the method
\* name and whose params entry records every parameter the call used: K and
\* iterations for mixture_model, threshold and linkage for co_occ_linkage,
\* threshold and clique_size for graph_closure, threshold for majority_vote.
C13_ResultRecordsParameters ==
    [][ret'.exc = "none" /\ Len(held') >= 1 =>
       LET c == held'[Len(held')] IN
       /\ \A K \in MixtureKArgs, iterations \in IterationsArgs :
             mixture_model(K, iterations)
             => OneSolution(c, "mixture_model", [K |-> K, iterations |-> iterations])
       /\ \A threshold \in ThresholdArgs, linkage \in LinkageArgs :
             finish_co_occ_linkage(threshold, linkage)
             => OneSolution(c, "co_occ_linkage",
                            [threshold |-> threshold, linkage |-> linkage])
       /\ \A threshold \in ThresholdArgs, clique_size \in CliqueSizeArgs :
             finish_graph_closure(threshold, clique_size)
             => OneSolution(c, "graph_closure",
                            [threshold |-> threshold, clique_size |-> clique_size])
       /\ \A threshold \in ThresholdArgs :
             finish_majority_vote(threshold)
             => OneSolution(c, "majority_vote", [threshold |-> threshold])]_vars

\* the four finishing methods, as ret.op names them
Finishers == CoOccFinishers \cup {"mixture_model"}

\* C14: a finishing call leaves the five dictionaries of the calling object
\* as they were and returns a newly created object; a result returned
\* earlier is not changed by a later cluster or finishing call on the object
\* that produced it.
C14_FinishingCreatesNewObject ==
    [][ret'.op \in Finishers \cup {"cluster"} =>
       /\ ret'.op \in Finishers => Self' = Self
       /\ ret'.op \in Finishers /\ ret'.exc = "none"
          => Len(held') >= 1 /\ held'[Len(held')] # Self'
       /\ held # <<>> => \E i \in DOMAIN held' : held'[i] = held[Len(held)]]_vars

\* a finishing call on a cluster object of two solutions has returned while
\* the caller held the result of an earlier one
C14_Witness ==
    /\ ret.op \in Finishers /\ ret.exc = "none"
    /\ Len(held) = 2 /\ held[1] # held[2]
    /\ Cardinality(DOMAIN labels) = 2

\* the fields the docstring of search_field names
DocumentedFields ==
    {"data_source", "algorithm", "clusterNumber", "K", "linkage", "distance"}

\* the stored solutions whose entry for the field equals the value
Matching(field, value) ==
    {name \in DOMAIN labels :
        IF field = "data_source" THEN PyEq("s", data_source[name], value)
        ELSE IF field = "algorithm" THEN PyEq("s", algorithms[name], value)
        ELSE IF field = "clusterNumber"
        THEN PyEq("i", Cardinality(Range(labels[name])), value)
        ELSE /\ field \in DOMAIN params[name]
             /\ PyEq(ParamKind(field), params[name][field], value)}

\* C15: search_field(field, value) returns exactly the names of the stored
\* solutions whose data_source, algorithm, number of distinct labels or
\* parameter of that name equals the value, the empty list when none does;
\* it raises ValueError only for a field that is not recognized, and it
\* never modifies the cluster object.
C15_SearchReturnsMatches ==
    [][ret'.op = "search_field" =>
       /\ Self' = Self
       /\ \A field \in SearchFieldArgs, value \in SearchValueArgs :
             search_field(field, value) =>
                /\ ret'.exc \in {"none", "ValueError"}
                /\ ret'.exc = "none" => returned'.names = Matching(field, value)
                /\ ret'.exc = "ValueError" => field \notin DocumentedFields]_vars

\* C16: slice(names) returns a new cluster object whose key set in each of
\* the five dictionaries is exactly the set of the names passed, every entry
\* equal to the entry of the source object; it raises ValueError if a name
\* passed is not a stored solution; the source object is unchanged either
\* way, and slicing by all the stored names reproduces its five dictionaries.
C16_SliceKeepsNamed ==
    [][ret'.op = "slice" =>
       /\ Self' = Self
       /\ \A names \in SliceArgs :
             slice(names) =>
                IF Range(names) \subseteq DOMAIN labels
                THEN /\ ret'.exc = "none"
                     /\ LET c == returned'.c IN
                        /\ DOMAIN c.labels = Range(names)
                        /\ DOMAIN c.data_source = Range(names)
                        /\ DOMAIN c.params = Range(names)
                        /\ DOMAIN c.clusterNumbers = Range(names)
                        /\ DOMAIN c.algorithms = Range(names)
                        /\ \A n \in Range(names) :
                              /\ c.labels[n] = labels[n]
                              /\ c.data_source[n] = data_source[n]
                              /\ c.params[n] = params[n]
                              /\ c.clusterNumbers[n] = clusterNumbers[n]
                              /\ c.algorithms[n] = algorithms[n]
                        /\ Range(names) = DOMAIN labels => c = Self
                ELSE ret'.exc = "ValueError"]_vars

\* slice has returned one of the two solutions stored
C16_Witness ==
    /\ ret.op = "slice" /\ ret.exc = "none"
    /\ Cardinality(DOMAIN labels) = 2
    /\ DOMAIN returned.c.labels = {"k"}
    /\ returned.c.labels["k"] = labels["k"]

\* the labels after the cluster ids are permuted by sigma
Relabel(L, sigma) == Array([k \in 1..Len(L) |-> sigma[L[k]]])

\* the permutations of the cluster ids 0..K-1 of a label assignment
IdPermutations(L) == Permutations(0..(Cardinality(Range(L)) - 1))

Together(ens, i, j) == Cardinality({n \in DOMAIN ens : ens[n][i] = ens[n][j]})

\* C18: the co-occurrence matrix built from an ensemble of one or more label
\* assignments of N objects has entry (i,j) equal to the number of
\* assignments with label[i] = label[j] divided by the ensemble size; it
\* is symmetric, its diagonal is exactly 1, its entries lie in [0,1], and
\* an ensemble of identical assignments gives only the values 0 and 1.
C18_CoOccurrenceMatrix ==
    passed.fn \in {"coMat", "majority_vote", "graph_closure"} =>
        LET co == passed.co_matrix
            ens == passed.ensemble
            N == NumObjects
        IN  /\ Len(co) = N
            /\ \A i, j \in 1..N :
                  /\ co[i][j] = R(Together(ens, i, j), Cardinality(DOMAIN ens))
                  /\ co[i][j] = co[j][i]
                  /\ RLe(Zero, co[i][j]) /\ RLe(co[i][j], RInt(1))
            /\ \A i \in 1..N : co[i][i] = RInt(1)
            /\ (\A m, n \in DOMAIN ens : ens[m] = ens[n])
               => \A i, j \in 1..N : co[i][j] \in {Zero, RInt(1)}

\* the co-occurrence matrix of an ensemble of two assignments that differ
\* was built: it has an entry 1/2
C18_Witness ==
    /\ ret.op = "co_occurrence_matrix" /\ passed.fn = "coMat"
    /\ Cardinality(DOMAIN passed.ensemble) = 2
    /\ \E i, j \in 1..NumObjects : passed.co_matrix[i][j] = R(1, 2)

\* the worked example as the ensemble of a cluster object
ExampleEnsemble == StoredEnsemble(ExampleAssignments).labels

\* C19 as stated: for the ensemble [[0,0,1,1],[0,0,1,1],[0,1,1,0]] the
\* co-occurrence of objects 0 and 1 is 2/3, of 0 and 2 is 0 and of 2 and 3 is
\* 1/3, and majority vote with threshold 0.5 merges objects 0 and 1 and
\* leaves objects 2 and 3 unmerged with each other.  (Objects are numbered
\* from 1 here.)
C19_ExampleAsStated ==
    passed.fn \in {"coMat", "majority_vote"} /\ passed.ensemble = ExampleEnsemble =>
        LET co == passed.co_matrix IN
        /\ co[1][2] = R(2, 3) /\ co[1][3] = Zero /\ co[3][4] = R(1, 3)
        /\ passed.fn = "majority_vote" /\ passed.threshold = R(1, 2)
           => LET L == returned.c.labels["majority_vote"]
              IN  L[1] = L[2] /\ L[3] # L[4]

\* C19, amended: for the ensemble [[0,0,1,1],[0,0,1,1],[0,1,1,0]] the
\* co-occurrence of objects 0 and 1 is 2/3, of 0 and 2 is 0 and of 2 and 3 is
\* 2/3, and majority vote with threshold 0.5 merges objects 0 and 1, merges
\* objects 2 and 3, and keeps the two pairs apart.
C19_Example ==
    passed.fn \in {"coMat", "majority_vote"} /\ passed.ensemble = ExampleEnsemble =>
        LET co == passed.co_matrix IN
        /\ co[1][2] = R(2, 3) /\ co[1][3] = Zero /\ co[3][4] = R(2, 3)
        /\ passed.fn = "majority_vote" /\ passed.threshold = R(1, 2)
           => LET L == returned.c.labels["majority_vote"]
              IN  L[1] = L[2] /\ L[3] = L[4] /\ L[1] # L[3]

\* majority vote with threshold 1/2 has returned the consensus of the
\* example ensemble
C19_Witness ==
    /\ ret.op = "finish_majority_vote" /\ ret.exc = "none"
    /\ passed.fn = "majority_vote" /\ passed.threshold = R(1, 2)
    /\ passed.ensemble = ExampleEnsemble
    /\ DOMAIN returned.c.labels = {"majority_vote"}

\* the objects linked to those of X by a chain of cliques of Q in which
\* consecutive cliques share a node
RECURSIVE Reached(_, _)
Reached(X, Q) ==
    LET Y == X \cup UNION {S \in Q : S \cap X # {}}
    IN  IF Y = X THEN X ELSE Reached(Y, Q)

\* C20: graph closure, with an edge between distinct objects i and j iff
\* coMatrix[i][j] >= threshold, gives two distinct objects the same label
\* iff a chain of cliques of exactly clique_size nodes, consecutive ones
\* sharing a node, links them; an object in no such clique gets a label no
\* other object has; and the partition is the same for every order in which
\* the cliques are enumerated.
C20_GraphClosure ==
    passed.fn = "graph_closure" =>
        LET co == passed.co_matrix
            N == NumObjects
            par == returned.c.params["graph_closure"]
            L == returned.c.labels["graph_closure"]
            Q == {S \in SUBSET (1..N) :
                     /\ Cardinality(S) = par.clique_size
                     /\ \A i, j \in S : i # j => RLe(par.threshold, co[i][j])}
        IN  /\ \A i, j \in 1..N :
                  i # j => (L[i] = L[j] <=> j \in Reached({i}, Q))
            /\ \A i \in 1..N :
                  (\A S \in Q : i \notin S) => \A j \in 1..N : j # i => L[j] # L[i]
            /\ \A pi \in Permutations(1..N) :
                  graph_closure(co, par.threshold, par.clique_size, pi) = L

\* graph closure has given one label to two objects that no edge joins:
\* a chain of two cliques links them
C20_Witness ==
    /\ ret.op = "finish_graph_closure" /\ ret.exc = "none"
    /\ passed.fn = "graph_closure"
    /\ LET L == returned.c.labels["graph_closure"] IN
       \E i, j \in 1..NumObjects :
           /\ i # j /\ L[i] = L[j]
           /\ ~RLe(passed.threshold, passed.co_matrix[i][j])

\* the description string each metric assigns at the head of its body
DescriptionOf(m) ==
    CASE m = "Ball_Hall" -> "Mean of the mean dispersions across all clusters"
      [] m = "Banfeld_Raferty" -> "Weighted sum of the logarithms of the traces of the variance-covariance matrix of each cluster"
      [] m = "Baker_Hubert_Gamma" -> "Gamma Index: a measure of compactness"
      [] m = "det_ratio" -> "Determinant ratio, a measure of connectedness"
      [] m = "c_index" -> "The C-Index, a measure of cluster compactness"
      [] m = "g_plus_index" -> "The G_plus index, a measure of connectedness"
      [] m = "ksq_detw_index" -> "The Ksq_DetW index, a measure of connectedness"
      [] m = "log_det_ratio" -> "The log determinant ratio index, a measure of connectedness"
      [] m = "log_ss_ratio" -> "The log ss ratio, a measure of connectedness"
      [] m = "McClain_Rao" -> "The McClain-Rao Index, a measure of compactness"
      [] m = "PBM_index" -> "The PBM index, a measure of compactness"
      [] m = "point_biserial" -> "The Point-Biserial index, a measure of connectedness"
      [] m = "Ratkowsky_Lance" -> "The Ratkowsky-Lance index, a measure of compactness"

\* C21: for every metric m, the description left with the score of a call
\* that returns is the description string m itself assigns; for
\* log_det_ratio it is 'The log determinant ratio index, a measure of
\* connectedness'.
C21_DescriptionIsTheMetrics ==
    outcome.called # "none" /\ outcome.exc = "none"
        => v.description = DescriptionOf(outcome.called)

\* the object pairs a < b of 1..N whose objects lie in different clusters
\* (between-cluster, 'heter') and in one cluster (within-cluster, 'homo')
BetweenPairs(L) == {p \in Range(PairList(Len(L))) : L[p[1]] # L[p[2]]}
WithinPairs(L) == {p \in Range(PairList(Len(L))) : L[p[1]] = L[p[2]]}

\* the combinations of a between-cluster pair and a within-cluster pair in
\* which the between-cluster distance is the larger, and the smaller
HeterLarger(X, L) ==
    {bw \in BetweenPairs(L) \X WithinPairs(L) :
        RLt(SqEuclid(X[bw[2][1]], X[bw[2][2]]), SqEuclid(X[bw[1][1]], X[bw[1][2]]))}
HeterSmaller(X, L) ==
    {bw \in BetweenPairs(L) \X WithinPairs(L) :
        RLt(SqEuclid(X[bw[1][1]], X[bw[1][2]]), SqEuclid(X[bw[2][1]], X[bw[2][2]]))}

\* C22: in Baker_Hubert_Gamma and g_plus_index s- is exactly the number of
\* combinations of a between-cluster pair and a within-cluster pair in which
\* the between-cluster distance is strictly larger than the within-cluster
\* distance, and in Baker_Hubert_Gamma s+ is exactly the number in which it
\* is strictly smaller.
C22_ConcordantDiscordantCounts ==
    outcome.called \in {"Baker_Hubert_Gamma", "g_plus_index"} =>
        LET pairDis == PairSq(input.data)
            vecB == VecBSq(input.labels)
        IN  /\ SMinus(pairDis, vecB)
                  = Cardinality(HeterLarger(input.data, input.labels))
            /\ outcome.called = "Baker_Hubert_Gamma"
               => SPlus(pairDis, vecB)
                     = Cardinality(HeterSmaller(input.data, input.labels))

\* the requested metric evaluated on what is stored now under the names
EvaluatedNow(m, h) ==
    CallMetric(m, NewValidation(D[source_name[h]],
                                labels[cluster_name[h]])).obj.validation

\* C23: after any sequence of transform, cluster and calculate calls, every
\* entry of the validation dictionary equals the requested metric evaluated on
\* the data matrix now stored under the entry's source_name and the labels now
\* stored under its cluster_name: no stored result is stale
C23_StoredResultsAreCurrent ==
    \A h \in DOMAIN validation :
        /\ source_name[h] \in DOMAIN D
        /\ cluster_name[h] \in DOMAIN labels
        /\ \E m \in ValidationMetrics :
               /\ h = Handle(m, source_name[h], cluster_name[h])
               /\ validation[h] = EvaluatedNow(m, h)
====
